---- MODULE Spec2Model ----
(***************************************************************************)
(* Model of src/extract_images.py: extract_and_optimize_images, the        *)
(* page/image loop that extracts embedded images from a PDF, downsizes     *)
(* them and writes them as JPEG files under names taken from naming_map.   *)
(***************************************************************************)
EXTENDS Integers, Sequences, FiniteSets, TLC

(***************************************************************************)
(* Python float arithmetic (IEEE-754 binary64, round to nearest, ties to   *)
(* even) for the two expressions of lines 93-94:                           *)
(*     ratio = max_size / max(original_size)                               *)
(*     int(original_size[i] * ratio)                                       *)
(* A significand is a little-endian sequence of limbs in base LimbBase, so *)
(* that every intermediate value stays far below 2^31. An intermediate     *)
(* value v used several times in e is bound once, as the only element of   *)
(* {e : x \in {v}}.                                                        *)
(***************************************************************************)
MantBits == 53

LimbBits == 9

LimbBase == 2 ^ LimbBits

\* Number of limbs holding a 53-bit significand (8 + 5 * 9 bits).
MantLimbs == 6

Max(a, b) == IF a >= b THEN a ELSE b

RECURSIVE BitLen(_)
\* Number of significant bits of a natural number.
BitLen(n) == IF n = 0 THEN 0 ELSE 1 + BitLen(n \div 2)

RECURSIVE BigLen(_, _)
\* Number of limbs of b[1..n] up to its most significant non-zero limb.
BigLen(b, n) == IF n > 0 /\ b[n] = 0 THEN BigLen(b, n - 1) ELSE n

\* Drop the leading (most significant) zero limbs.
BigNorm(b) == SubSeq(b, 1, BigLen(b, Len(b)))

\* Number of significant bits of a normalised limb sequence.
BigBitLen(b) ==
    IF b = <<>> THEN 0 ELSE (Len(b) - 1) * LimbBits + BitLen(b[Len(b)])

\* Limb i of b, 0 past its end.
Limb(b, i) == IF i \in 1..Len(b) THEN b[i] ELSE 0

\* Bit i of b, bit 0 being the least significant.
BigBit(b, i) == (Limb(b, (i \div LimbBits) + 1) \div (2 ^ (i % LimbBits))) % 2

RECURSIVE Carry(_, _, _)
\* The carry out of limb i of the product b * w.
Carry(b, w, i) ==
    IF i = 0 THEN 0 ELSE (b[i] * w + Carry(b, w, i - 1)) \div LimbBase

RECURSIVE CarryLimbs(_)
\* The limbs of a natural number.
CarryLimbs(c) ==
    IF c = 0 THEN <<>> ELSE <<c % LimbBase>> \o CarryLimbs(c \div LimbBase)

\* b * w for a small natural w.
BigMulSmall(b, w) ==
    [i \in 1..Len(b) |-> (b[i] * w + Carry(b, w, i - 1)) % LimbBase]
    \o CarryLimbs(Carry(b, w, Len(b)))

RECURSIVE IncLen(_, _)
\* The number of low limbs of b that a carry of 1 runs through.
IncLen(b, i) == IF i <= Len(b) /\ b[i] = LimbBase - 1 THEN IncLen(b, i + 1) ELSE i

\* b + 1.
BigInc(b) ==
    LET k == IncLen(b, 1)
    IN  [i \in 1..Max(Len(b), k) |->
            IF i < k THEN 0 ELSE IF i = k THEN Limb(b, i) + 1 ELSE b[i]]

\* floor(b / 2^s).
BigShiftRight(b, s) ==
    LET q == s \div LimbBits
        r == s % LimbBits
    IN  BigNorm([i \in 1..(Len(b) - q) |->
            (b[i + q] \div (2 ^ r))
            + (Limb(b, i + q + 1) % (2 ^ r)) * (2 ^ (LimbBits - r))])

\* floor(b / 2).
BigHalf(b) == BigShiftRight(b, 1)

\* b shifted right by s bits, with the last bit shifted out (guard) and
\* whether any bit below it was set (sticky).
BigShiftRound(b, s) ==
    [big    |-> BigShiftRight(b, s),
     guard  |-> IF s >= 1 THEN BigBit(b, s - 1) ELSE 0,
     sticky |-> \E i \in 0..(s - 2) : BigBit(b, i) = 1]

RECURSIVE BigToNat(_, _)
\* The value of the limbs i.. of b, for a b that is small.
BigToNat(b, i) ==
    IF i > Len(b) THEN 0 ELSE b[i] + LimbBase * BigToNat(b, i + 1)

\* Round to nearest, ties to even: the significand after rounding.
RoundNearestEven(big, guard, sticky) ==
    IF guard = 1 /\ (sticky \/ Limb(big, 1) % 2 = 1) THEN BigInc(big) ELSE big

\* A float [mant, exp] stands for mant * 2^exp with mant of exactly MantBits
\* bits. Renormalise a significand that rounding carried to MantBits + 1 bits.
MakeFloat(mant, exp) ==
    IF BigBitLen(mant) > MantBits
    THEN [mant |-> BigHalf(mant), exp |-> exp + 1]
    ELSE [mant |-> mant, exp |-> exp]

RECURSIVE ScaleUp(_, _, _)
\* The least k with a * 2^k >= b.
ScaleUp(a, b, k) == IF a >= b THEN k ELSE ScaleUp(2 * a, b, k + 1)

RECURSIVE DivRem(_, _, _)
\* The remainder left after n further limbs of the quotient r / b.
DivRem(r, b, n) == IF n = 0 THEN r ELSE (DivRem(r, b, n - 1) * LimbBase) % b

\* Python's a / b for integers 0 < a < b: the correctly rounded quotient.
\* The quotient a * 2^k / b lies in [1, 2); its leading limb and the
\* MantLimbs - 1 limbs below it make MantBits bits, the next bit is the
\* guard bit and the remainder decides the sticky bit.
TrueDiv(a, b) ==
    LET k    == ScaleUp(a, b, 0)
        top  == 2 ^ (MantBits - 1 - (MantLimbs - 1) * LimbBits)
        r1   == (a * (2 ^ k) * top) % b
        last == DivRem(r1, b, MantLimbs - 1)
        quot == [i \in 1..MantLimbs |->
                    IF i = MantLimbs THEN (a * (2 ^ k) * top) \div b
                    ELSE (DivRem(r1, b, MantLimbs - 1 - i) * LimbBase) \div b]
    IN  CHOOSE f \in
            {MakeFloat(RoundNearestEven(q, (2 * last) \div b, (2 * last) % b # 0),
                       0 - k - (MantBits - 1)) : q \in {quot}} : TRUE

\* Python's w * f for an integer w > 0 and a float f: the correctly rounded
\* product (w itself converts to float exactly).
\* The product rounded: the exact product shifted right by s bits.
RoundProduct(exact, s, exp) ==
    CHOOSE f \in
        {MakeFloat(RoundNearestEven(cut.big, cut.guard, cut.sticky), exp + s) :
            cut \in {BigShiftRound(exact, s)}} : TRUE

IntTimesFloat(w, f) ==
    CHOOSE p \in
        {IF BigBitLen(exact) <= MantBits THEN [mant |-> exact, exp |-> f.exp]
         ELSE RoundProduct(exact, BigBitLen(exact) - MantBits, f.exp) :
            exact \in {BigNorm(BigMulSmall(f.mant, w))}} : TRUE

\* Python's int(f) for a float f >= 0: truncation toward zero.
FloatToInt(f) ==
    IF f.exp >= 0 THEN BigToNat(f.mant, 1) * (2 ^ f.exp)
    ELSE BigToNat(BigShiftRight(f.mant, 0 - f.exp), 1)

(***************************************************************************)
(* Constants of the program.                                               *)
(***************************************************************************)
\* naming_map (lines 29-41).
naming_map ==
    [i \in 0..10 |->
        CASE i = 0  -> "lambert-graphic-design-cover"
          [] i = 1  -> "digital-portrait-hijab"
          [] i = 2  -> "casino-banners"
          [] i = 3  -> "posters-labour-day"
          [] i = 4  -> "posters-pi-mai-lao"
          [] i = 5  -> "tshirt-wiz-khalifa"
          [] i = 6  -> "family-portrait-vector"
          [] i = 7  -> "embroidery-ai-mockup"
          [] i = 8  -> "embroidery-ps-mockup"
          [] i = 9  -> "ornament-3d"
          [] i = 10 -> "creatives-iron-mindset"]

\* max_size (line 91).
max_size == 1200

\* A local name that is not bound yet.
Unbound == 0 - 1

NoImage == [xref |-> 0, size |-> <<0, 0>>, n |-> 0, alpha |-> 0]

(***************************************************************************)
(* Strings are sequences of pieces, so that an f-string is a concatenation.*)
(***************************************************************************)
DigitChar == <<"0", "1", "2", "3", "4", "5", "6", "7", "8", "9">>

RECURSIVE Decimal(_)
\* str(n) of a natural number, as the sequence of its decimal digits.
Decimal(n) ==
    IF n < 10 THEN <<DigitChar[n + 1]>>
    ELSE Decimal(n \div 10) \o <<DigitChar[(n % 10) + 1]>>

\* Lines 79-82, with a bug: the table is looked up one slot too far.
BaseNameOffByOne(count) ==
    IF count + 1 \in DOMAIN naming_map THEN <<naming_map[count + 1]>>
    ELSE <<"portfolio-image-">> \o Decimal(count)

\* Lines 79-82: base_name for the current value of the counter.
BaseName(count) ==
    IF count \in DOMAIN naming_map THEN <<naming_map[count]>>
    ELSE <<"portfolio-image-">> \o Decimal(count)

\* Line 84: filename = f"{base_name}.jpg".
FileName(base_name) == base_name \o <<".jpg">>

\* Line 85: os.path.join(output_dir, filename).
FilePath(filename) == <<"output_dir", "/">> \o filename

\* Lines 93-94, with a bug: the product is rounded to the nearest integer
\* (round half up on the exact quotient) instead of being truncated.
ScaledRounded(side, longest) == (2 * side * max_size + longest) \div (2 * longest)

\* Lines 93-94: int(side * (max_size / longest)) in float arithmetic.
Scaled(side, longest) ==
    CHOOSE scaled \in
        {FloatToInt(product) :
            product \in {IntTimesFloat(side, ratio) :
                ratio \in {TrueDiv(max_size, longest)}}} : TRUE

\* Lines 92-98, with a bug: the shortest side is compared and scaled to.
TargetSizeShortest(size) ==
    LET shortest == IF size[1] <= size[2] THEN size[1] ELSE size[2]
    IN  IF shortest > max_size
        THEN <<(size[1] * max_size) \div shortest, (size[2] * max_size) \div shortest>>
        ELSE size

\* Lines 92-98: the size the image is saved at.
TargetSize(size) ==
    IF Max(size[1], size[2]) > max_size
    THEN <<Scaled(size[1], Max(size[1], size[2])),
           Scaled(size[2], Max(size[1], size[2]))>>
    ELSE size


(***************************************************************************)
(* Bounds of the model and the documents it is run on.                     *)
(***************************************************************************)
\* Spec: the pages of a document and the embedded images of all its pages.
MaxPages == 3

MaxImages == 4

\* SpecNaming: documents of one or two pages, long enough to run past the
\* end of naming_map.
LongPages == {1, 2}

MaxLongImages == 13

\* SpecResize: the longest sides tried are those within DimMargin of max_size.
DimMargin == 8

\* Longest sides above max_size at which the float product of line 94 falls
\* below a whole exact quotient (1392) or below max_size itself (2191).
AnomalousSides == {1392, 2191}

\* SpecResize: the longest sides and the sizes tried.
LongSides ==
    {l \in 1..(max_size + DimMargin) : l >= max_size - DimMargin} \cup AnomalousSides

\* The sizes whose longest side is l: landscape and portrait.
SizesOfLongest(l) == UNION {{<<l, t>>, <<t, l>>} : t \in 1..l}

\* Width and height of the embedded images of the documents of Spec: at,
\* below and above max_size, one that scales to a zero height, and two whose
\* scaled side is one less than the exact quotient.
SampleSizes ==
    << <<800, 600>>, <<2191, 1000>>, <<1200, 1200>>, <<3000, 1>>,
       <<145, 1392>>, <<1201, 1201>> >>

\* Components and alpha flag (pix.n, pix.alpha): grey, RGB, CMYK, RGB with
\* alpha, CMYK with alpha.
SampleComponents == << <<3, 0>>, <<4, 0>>, <<1, 0>>, <<4, 1>>, <<5, 1>> >>

\* The embedded image with cross-reference number x.
ImageOf(x) ==
    [xref  |-> x,
     size  |-> SampleSizes[((x - 1) % Len(SampleSizes)) + 1],
     n     |-> SampleComponents[((x - 1) % Len(SampleComponents)) + 1][1],
     alpha |-> SampleComponents[((x - 1) % Len(SampleComponents)) + 1][2]]

RECURSIVE Before(_, _)
\* The number of images on the first k pages of a shape.
Before(shape, k) == IF k = 0 THEN 0 ELSE Before(shape, k - 1) + shape[k]

\* The numbers of images per page of the documents of a number of pages in
\* P with at most m images in all.
Shapes(P, m) ==
    {shape \in UNION {[1..k -> 0..m] : k \in P} : Before(shape, Len(shape)) <= m}

\* A document whose images are all different: the i-th image of the
\* document has cross-reference number i.
DistinctDoc(shape) ==
    [k \in 1..Len(shape) |->
        [j \in 1..shape[k] |-> ImageOf(Before(shape, k - 1) + j)]]

\* A document that places one and the same image everywhere.
RepeatedDoc(shape) ==
    [k \in 1..Len(shape) |-> [j \in 1..shape[k] |-> ImageOf(2)]]

\* What a file of the output directory holds: a JPEG written from image
\* xref at a size, a file truncated by a save that failed, or a file that
\* was there before the run.
Jpeg(xref, size) == [kind |-> "jpeg", xref |-> xref, size |-> size]

Partial == [kind |-> "partial", xref |-> 0, size |-> <<0, 0>>]

Old == [kind |-> "old", xref |-> 0, size |-> <<0, 0>>]

NoFiles == [f \in {} |-> Old]

\* The output directory as a previous run and its user left it.
OldFiles ==
    [f \in {FilePath(FileName(BaseName(0))), FilePath(<<"notes.txt">>)} |-> Old]

\* os.path.getsize: the byte size of a file is a function of what it holds.
GetSize(content) == <<"bytes", content.kind, content.xref, content.size>>

VARIABLES
    pc,                 \* the statement about to run
    doc,                \* the PDF: pages, each a sequence of embedded images
    files0,             \* the output directory before the run
    files,              \* the output directory: path -> content
    dir_exists,         \* whether output_dir exists
    pdf_doc,            \* the document handle: "unopened", "open", "closed"
    page_num, image_list, img_index,
    pix, img_pil, filename, original_size,
    image_count, extracted_images,
    result,             \* the value returned, once returned
    exc,                \* the statement that raised, while the exception is in flight
    written,            \* xrefs of the images saved so far
    closes,             \* calls of pdf_doc.close()
    failures            \* exceptions handled by the per-image handler

vars ==
    <<pc, doc, files0, files, dir_exists, pdf_doc, page_num, image_list,
      img_index, pix, img_pil, filename, original_size, image_count,
      extracted_images, result, exc, written, closes, failures>>

NoResult == <<"no result">>

\* The state on entry to extract_and_optimize_images(pdf_path, output_dir).
Entry(d, f0) ==
    /\ pc = "mkdir"
    /\ doc = d
    /\ files0 = f0
    /\ files = f0
    /\ dir_exists = (f0 # NoFiles)
    /\ pdf_doc = "unopened"
    /\ page_num = Unbound
    /\ image_list = <<>>
    /\ img_index = Unbound
    /\ pix = NoImage
    /\ img_pil = NoImage
    /\ filename = <<>>
    /\ original_size = <<0, 0>>
    /\ image_count = Unbound
    /\ extracted_images = <<>>
    /\ result = NoResult
    /\ exc = "none"
    /\ written = {}
    /\ closes = 0
    /\ failures = 0

Init ==
    \E shape \in Shapes(0..MaxPages, MaxImages), f0 \in {NoFiles, OldFiles} :
        Entry(DistinctDoc(shape), f0)

InitNaming ==
    \E shape \in Shapes(LongPages, MaxLongImages) :
        Entry(RepeatedDoc(shape), NoFiles)

\* The statements of the per-image try block (lines 63-109).
ImageSteps == {"fetch", "convert", "decode", "name", "resize", "save", "record", "incr"}

\* Bug: an exception of the save is not caught per image.
HandlerEscalating(step) ==
    IF step \in ImageSteps \ {"save"} THEN "except_inner" ELSE "except_outer"

\* The except clause an exception raised by a statement reaches: line 111
\* for the statements of the inner try, line 129 for the others of the
\* outer try (lines 43-127).
Handler(step) ==
    IF step \in ImageSteps THEN "except_inner" ELSE "except_outer"

Raise(step) ==
    /\ pc' = Handler(step)
    /\ exc' = step

\* The locals of one image iteration, dead once the iteration is over.
ForgetImage ==
    /\ pix' = NoImage
    /\ img_pil' = NoImage
    /\ filename' = <<>>
    /\ original_size' = <<0, 0>>


(***************************************************************************)
(* The statements of extract_and_optimize_images.                          *)
(***************************************************************************)
\* Line 26: Path(output_dir).mkdir(parents=True, exist_ok=True), outside
\* every try: its exception leaves the function.
Mkdir ==
    /\ pc = "mkdir"
    /\ \/ dir_exists' = TRUE /\ pc' = "open" /\ exc' = exc
       \/ dir_exists' = dir_exists /\ pc' = "raised" /\ exc' = "mkdir"
    /\ UNCHANGED <<doc, files0, files, pdf_doc, page_num, image_list, img_index,
                   pix, img_pil, filename, original_size, image_count,
                   extracted_images, result, written, closes, failures>>

\* Lines 45-53: fitz.open, then the counter and the list of records; the
\* page loop starts at page 0.
Open ==
    /\ pc = "open"
    /\ \/ /\ pdf_doc' = "open"
          /\ image_count' = 0
          /\ extracted_images' = <<>>
          /\ page_num' = 0
          /\ pc' = "page_loop"
          /\ exc' = exc
       \/ /\ Raise("open")
          /\ UNCHANGED <<pdf_doc, image_count, extracted_images, page_num>>
    /\ UNCHANGED <<doc, files0, files, dir_exists, image_list, img_index, pix,
                   img_pil, filename, original_size, result, written, closes,
                   failures>>

\* Line 53: for page_num in range(len(pdf_doc)).
PageLoop ==
    /\ pc = "page_loop"
    /\ pc' = IF page_num < Len(doc) THEN "load_page" ELSE "close"
    /\ UNCHANGED <<doc, files0, files, dir_exists, pdf_doc, page_num, image_list,
                   img_index, pix, img_pil, filename, original_size, image_count,
                   extracted_images, result, exc, written, closes, failures>>

\* Lines 54-60: pdf_doc[page_num] and page.get_images(), either of which
\* raises on a page it cannot read.
LoadPage ==
    /\ pc = "load_page"
    /\ \/ /\ image_list' = doc[page_num + 1]
          /\ img_index' = 0
          /\ pc' = "image_loop"
          /\ exc' = exc
       \/ /\ Raise("load_page")
          /\ UNCHANGED <<image_list, img_index>>
    /\ UNCHANGED <<doc, files0, files, dir_exists, pdf_doc, page_num, pix, img_pil,
                   filename, original_size, image_count, extracted_images, result,
                   written, closes, failures>>

\* Line 62: for img_index, img in enumerate(image_list); past the last
\* image, the page loop takes the next page.
ImageLoop ==
    /\ pc = "image_loop"
    /\ IF img_index < Len(image_list)
       THEN pc' = "fetch" /\ page_num' = page_num
       ELSE pc' = "page_loop" /\ page_num' = page_num + 1
    /\ UNCHANGED <<doc, files0, files, dir_exists, pdf_doc, image_list, img_index,
                   pix, img_pil, filename, original_size, image_count,
                   extracted_images, result, exc, written, closes, failures>>

\* Lines 65-66: pix = fitz.Pixmap(pdf_doc, xref).
Fetch ==
    /\ pc = "fetch"
    /\ \/ pix' = image_list[img_index + 1] /\ pc' = "convert" /\ exc' = exc
       \/ Raise("fetch") /\ pix' = pix
    /\ UNCHANGED <<doc, files0, files, dir_exists, pdf_doc, page_num, image_list,
                   img_index, img_pil, filename, original_size, image_count,
                   extracted_images, result, written, closes, failures>>

\* Lines 69-73: CMYK is converted to RGB (the alpha channel is kept), then
\* the pixels are serialised.
Convert ==
    /\ pc = "convert"
    /\ \/ /\ pix' = IF pix.n - pix.alpha < 4 THEN pix
                    ELSE [pix EXCEPT !.n = 3 + pix.alpha]
          /\ pc' = "decode"
          /\ exc' = exc
       \/ Raise("convert") /\ pix' = pix
    /\ UNCHANGED <<doc, files0, files, dir_exists, pdf_doc, page_num, image_list,
                   img_index, img_pil, filename, original_size, image_count,
                   extracted_images, result, written, closes, failures>>

\* Line 76: img_pil = Image.open(io.BytesIO(img_data)).
Decode ==
    /\ pc = "decode"
    /\ \/ img_pil' = pix /\ pc' = "name" /\ exc' = exc
       \/ Raise("decode") /\ img_pil' = img_pil
    /\ UNCHANGED <<doc, files0, files, dir_exists, pdf_doc, page_num, image_list,
                   img_index, pix, filename, original_size, image_count,
                   extracted_images, result, written, closes, failures>>

\* Lines 79-85, with a bug: the name is looked up by the index of the image
\* in its page instead of the global counter.
NameByIndex ==
    /\ pc = "name"
    /\ filename' = FileName(BaseName(img_index))
    /\ pc' = "resize"
    /\ UNCHANGED <<doc, files0, files, dir_exists, pdf_doc, page_num, image_list,
                   img_index, pix, img_pil, original_size, image_count,
                   extracted_images, result, exc, written, closes, failures>>

\* Lines 79-85: the file name for the current value of the counter.
Name ==
    /\ pc = "name"
    /\ filename' = FileName(BaseName(image_count))
    /\ pc' = "resize"
    /\ UNCHANGED <<doc, files0, files, dir_exists, pdf_doc, page_num, image_list,
                   img_index, pix, img_pil, original_size, image_count,
                   extracted_images, result, exc, written, closes, failures>>

\* Lines 88-98: the image is resized when its longest side exceeds
\* max_size. Image.resize raises ValueError for a side of 0 pixels, and may
\* fail for want of memory.
Resize ==
    /\ pc = "resize"
    /\ original_size' = img_pil.size
    /\ IF Max(img_pil.size[1], img_pil.size[2]) > max_size
       THEN LET new_size == TargetSize(img_pil.size)
            IN  IF new_size[1] < 1 \/ new_size[2] < 1
                THEN Raise("resize") /\ img_pil' = img_pil
                ELSE \/ /\ img_pil' = [img_pil EXCEPT !.size = new_size]
                        /\ pc' = "save"
                        /\ exc' = exc
                     \/ Raise("resize") /\ img_pil' = img_pil
       ELSE img_pil' = img_pil /\ pc' = "save" /\ exc' = exc
    /\ UNCHANGED <<doc, files0, files, dir_exists, pdf_doc, page_num, image_list,
                   img_index, pix, filename, image_count, extracted_images,
                   result, written, closes, failures>>

\* Line 101: img_pil.convert('RGB').save(filepath, 'JPEG', ...). A save that
\* fails leaves the path as it was (it failed before the file was opened, or
\* Pillow removed the file it had created) or leaves a truncated file.
Save ==
    /\ pc = "save"
    /\ \/ /\ files' = [f \in DOMAIN files \cup {FilePath(filename)} |->
                          IF f = FilePath(filename)
                          THEN Jpeg(img_pil.xref, img_pil.size) ELSE files[f]]
          /\ written' = written \cup {img_pil.xref}
          /\ pc' = "record"
          /\ exc' = exc
       \/ /\ Raise("save")
          /\ written' = written
          /\ \/ files' = files
             \/ files' = [f \in DOMAIN files \cup {FilePath(filename)} |->
                             IF f = FilePath(filename) THEN Partial ELSE files[f]]
    /\ UNCHANGED <<doc, files0, dir_exists, pdf_doc, page_num, image_list,
                   img_index, pix, img_pil, filename, original_size, image_count,
                   extracted_images, result, closes, failures>>

\* The record of lines 103-107.
RecordOf(name) ==
    [name |-> name, path |-> FilePath(name), size |-> GetSize(files[FilePath(name)])]

\* Lines 103-107, with a bug: the record is put in front of the others.
RecordPrepending ==
    /\ pc = "record"
    /\ \/ /\ extracted_images' = <<RecordOf(filename)>> \o extracted_images
          /\ pc' = "incr"
          /\ exc' = exc
       \/ Raise("record") /\ extracted_images' = extracted_images
    /\ UNCHANGED <<doc, files0, files, dir_exists, pdf_doc, page_num, image_list,
                   img_index, pix, img_pil, filename, original_size, image_count,
                   result, written, closes, failures>>

\* Lines 103-107: extracted_images.append({...}); os.path.getsize may raise.
Record ==
    /\ pc = "record"
    /\ \/ /\ extracted_images' = Append(extracted_images, RecordOf(filename))
          /\ pc' = "incr"
          /\ exc' = exc
       \/ Raise("record") /\ extracted_images' = extracted_images
    /\ UNCHANGED <<doc, files0, files, dir_exists, pdf_doc, page_num, image_list,
                   img_index, pix, img_pil, filename, original_size, image_count,
                   result, written, closes, failures>>

\* Line 109: image_count += 1, the last statement of the iteration.
Incr ==
    /\ pc = "incr"
    /\ image_count' = image_count + 1
    /\ img_index' = img_index + 1
    /\ pc' = "image_loop"
    /\ ForgetImage
    /\ UNCHANGED <<doc, files0, files, dir_exists, pdf_doc, page_num, image_list,
                   extracted_images, result, exc, written, closes, failures>>

\* Lines 111-112, with a bug: the counter is advanced for a failed image too.
ExceptInnerCounting ==
    /\ pc = "except_inner"
    /\ image_count' = image_count + 1
    /\ failures' = failures + 1
    /\ exc' = "none"
    /\ img_index' = img_index + 1
    /\ pc' = "image_loop"
    /\ ForgetImage
    /\ UNCHANGED <<doc, files0, files, dir_exists, pdf_doc, page_num, image_list,
                   extracted_images, result, written, closes>>

\* Lines 111-112: the error is printed and the loop goes on.
ExceptInner ==
    /\ pc = "except_inner"
    /\ failures' = failures + 1
    /\ exc' = "none"
    /\ img_index' = img_index + 1
    /\ pc' = "image_loop"
    /\ ForgetImage
    /\ UNCHANGED <<doc, files0, files, dir_exists, pdf_doc, page_num, image_list,
                   image_count, extracted_images, result, written, closes>>

\* Line 114, with a bug: the handle is not released.
CloseForgotten ==
    /\ pc = "close"
    /\ pc' = "summary"
    /\ UNCHANGED <<doc, files0, files, dir_exists, pdf_doc, page_num, image_list,
                   img_index, pix, img_pil, filename, original_size, image_count,
                   extracted_images, result, exc, written, closes, failures>>

\* Line 114: pdf_doc.close().
Close ==
    /\ pc = "close"
    /\ pdf_doc' = "closed"
    /\ closes' = closes + 1
    /\ pc' = "summary"
    /\ UNCHANGED <<doc, files0, files, dir_exists, page_num, image_list,
                   img_index, pix, img_pil, filename, original_size, image_count,
                   extracted_images, result, exc, written, failures>>

\* Lines 117-125: the summary is printed.
Summary ==
    /\ pc = "summary"
    /\ pc' = "return"
    /\ UNCHANGED <<doc, files0, files, dir_exists, pdf_doc, page_num, image_list,
                   img_index, pix, img_pil, filename, original_size, image_count,
                   extracted_images, result, exc, written, closes, failures>>

\* Line 127: return extracted_images.
Return ==
    /\ pc = "return"
    /\ result' = extracted_images
    /\ pc' = "done"
    /\ UNCHANGED <<doc, files0, files, dir_exists, pdf_doc, page_num, image_list,
                   img_index, pix, img_pil, filename, original_size, image_count,
                   extracted_images, exc, written, closes, failures>>

\* Lines 129-131, with a bug: the handler removes the files of the output
\* directory before it returns.
ExceptOuterCleaning ==
    /\ pc = "except_outer"
    /\ files' = NoFiles
    /\ result' = <<>>
    /\ pc' = "done"
    /\ UNCHANGED <<doc, files0, dir_exists, pdf_doc, page_num, image_list,
                   img_index, pix, img_pil, filename, original_size, image_count,
                   extracted_images, exc, written, closes, failures>>

\* Lines 129-131: the error is printed and [] returned. exc keeps the
\* statement that raised.
ExceptOuter ==
    /\ pc = "except_outer"
    /\ result' = <<>>
    /\ pc' = "done"
    /\ UNCHANGED <<doc, files0, files, dir_exists, pdf_doc, page_num, image_list,
                   img_index, pix, img_pil, filename, original_size, image_count,
                   extracted_images, exc, written, closes, failures>>

Next ==
    \/ Mkdir
    \/ Open
    \/ PageLoop
    \/ LoadPage
    \/ ImageLoop
    \/ Fetch
    \/ Convert
    \/ Decode
    \/ Name
    \/ Resize
    \/ Save
    \/ Record
    \/ Incr
    \/ ExceptInner
    \/ Close
    \/ Summary
    \/ Return
    \/ ExceptOuter

\* A run on a document of up to MaxPages pages of different images.
Spec == Init /\ [][Next]_vars

\* A run on a long document that repeats one image.
SpecNaming == InitNaming /\ [][Next]_vars


\* The state in which line 88 is reached for the only image of a one-page
\* document: the statements of lines 26-85 have run without an exception.
InitResize ==
    \E longest \in LongSides : \E size \in SizesOfLongest(longest) :
        LET image == [xref |-> 1, size |-> size, n |-> 3, alpha |-> 0]
        IN  /\ pc = "resize"
            /\ doc = <<<<image>>>>
            /\ files0 = NoFiles
            /\ files = NoFiles
            /\ dir_exists = TRUE
            /\ pdf_doc = "open"
            /\ page_num = 0
            /\ image_list = <<image>>
            /\ img_index = 0
            /\ pix = image
            /\ img_pil = image
            /\ filename = FileName(BaseName(0))
            /\ original_size = <<0, 0>>
            /\ image_count = 0
            /\ extracted_images = <<>>
            /\ result = NoResult
            /\ exc = "none"
            /\ written = {}
            /\ closes = 0
            /\ failures = 0

NextResize ==
    \/ Resize
    \/ Save

\* The resize and the save of one image, over a range of image sizes.
SpecResize == InitResize /\ [][NextResize]_vars

(***************************************************************************)
(* Properties.                                                             *)
(***************************************************************************)
\* The number of embedded images of a document.
NumImages(d) == Before([k \in 1..Len(d) |-> Len(d[k])], Len(d))

\* What the file of a record holds now.
FileOf(record) == files[record.path]

RecordedFilesExist ==
    \A i \in 1..Len(extracted_images) : extracted_images[i].path \in DOMAIN files

CounterStep ==
    /\ (pc = "open" /\ pc' = "page_loop") => image_count' = 0
    /\ pc # "open" => image_count' \in {image_count, image_count + 1}
    /\ (pc = "incr" /\ pc' = "image_loop") => image_count' = image_count + 1
    /\ pc = "except_inner" => image_count' = image_count
    /\ (pc = "image_loop" /\ pc' = "page_loop") => image_count' = image_count
    /\ pc' \in {"image_loop", "page_loop"} => image_count' = Len(extracted_images')

\* C1: image_count starts at 0, grows by exactly 1 when an image has been
\* processed, is left alone by a failed image and by a page boundary, and
\* after every image iteration equals the number of records.
C1_CounterCountsRecords == [][CounterStep]_vars

C1_Witness ==
    /\ pc = "image_loop"
    /\ page_num >= 1
    /\ failures >= 1
    /\ image_count >= 2

\* The names of section 6 of the specification, in table order.
NamingTable ==
    <<"lambert-graphic-design-cover", "digital-portrait-hijab", "casino-banners",
      "posters-labour-day", "posters-pi-mai-lao", "tshirt-wiz-khalifa",
      "family-portrait-vector", "embroidery-ai-mockup", "embroidery-ps-mockup",
      "ornament-3d", "creatives-iron-mindset">>

ClaimedName(k) ==
    IF k <= Len(NamingTable) THEN <<NamingTable[k], ".jpg">>
    ELSE <<"portfolio-image-">> \o Decimal(k - 1) \o <<".jpg">>

\* C2: the k-th image extracted is written as the k-th name of the table
\* for k <= 11 and as portfolio-image-<k-1> from the 12th on, whatever page
\* it is on and whichever images failed before it.
C2_KthImageName ==
    \A k \in 1..Len(extracted_images) :
        /\ extracted_images[k].name = ClaimedName(k)
        /\ extracted_images[k].path = <<"output_dir", "/">> \o ClaimedName(k)
        /\ extracted_images[k].path \in DOMAIN files
        /\ files[extracted_images[k].path].kind = "jpeg"

C2_Witness ==
    /\ Len(extracted_images) >= 12
    /\ failures >= 1
    /\ page_num >= 1

CaughtStep ==
    /\ (pc \in ImageSteps /\ exc' # "none") =>
          /\ pc' = "except_inner"
          /\ extracted_images' = extracted_images
    /\ pc' = "except_outer" => exc' \notin ImageSteps
    /\ pc = "except_inner" =>
          /\ pc' = "image_loop"
          /\ img_index' = img_index + 1
          /\ extracted_images' = extracted_images
          /\ <<page_num', image_list', pdf_doc', result'>>
                = <<page_num, image_list, pdf_doc, result>>
    /\ pc' = "close" => Len(extracted_images') + failures' = NumImages(doc)

\* C3: an exception of a per-image statement reaches the per-image handler
\* and never the document-level one; the image adds no record, the records
\* are kept, and the loop goes on with the next image, so that at the end of
\* the last page every image has either a record or a handled failure.
C3_FailureCaughtPerImage == [][CaughtStep]_vars

C3_Witness ==
    /\ pc = "done"
    /\ failures >= 1
    /\ Len(doc) >= 2
    /\ Len(result) >= 2
    /\ FileOf(result[1]).xref = 1
    /\ FileOf(result[Len(result)]).xref = NumImages(doc)

\* C4: when fitz.open fails no page is visited, no file is written or
\* deleted, and [] is returned.
C4_OpenFailure ==
    exc = "open" =>
        /\ pc \in {"except_outer", "done"}
        /\ page_num = Unbound
        /\ image_list = <<>>
        /\ written = {}
        /\ files = files0
        /\ pc = "done" => result = <<>>

C4_Witness ==
    /\ exc = "open"
    /\ pc = "done"
    /\ files0 = OldFiles

\* C5: the sequence returned holds exactly one record for each image that
\* was encoded and written during the run, and no other record.
C5_OneRecordPerWrittenImage ==
    pc = "done" =>
        /\ Len(result) = Cardinality(written)
        /\ \A i \in 1..Len(result) : result[i].path \in DOMAIN files
        /\ {FileOf(result[i]).xref : i \in 1..Len(result)} = written

\* C6: images are handled in document order, one at a time: when an image
\* is started every image before it has its record or its handled failure,
\* the files of the records are on disk, and the records are in document
\* order.
C6_DocumentOrder ==
    /\ RecordedFilesExist
    /\ \A i \in 1..Len(extracted_images) : FileOf(extracted_images[i]).kind = "jpeg"
    /\ \A i, j \in 1..Len(extracted_images) :
          i < j => FileOf(extracted_images[i]).xref < FileOf(extracted_images[j]).xref
    /\ pc \in ImageSteps \ {"incr"} =>
          /\ Len(extracted_images) + failures = image_list[img_index + 1].xref - 1
          /\ \A i \in 1..Len(extracted_images) :
                FileOf(extracted_images[i]).xref < image_list[img_index + 1].xref
    /\ pc = "done" /\ exc = "none" => result = extracted_images

C6_Witness ==
    /\ pc = "done"
    /\ Len(doc) = 3
    /\ <<Len(doc[1]), Len(doc[2]), Len(doc[3])>> = <<1, 0, 2>>
    /\ Len(result) = 3
    /\ FileOf(result[1]).xref = 1
    /\ FileOf(result[3]).xref = 3

\* C7: the size written has its longest side <= 1200, and is the size of the
\* embedded image when that image's longest side is <= 1200.
C7_LongestSideBounded ==
    pc = "record" =>
        LET size_in  == doc[page_num + 1][img_index + 1].size
            size_out == files[FilePath(filename)].size
        IN  /\ Max(size_out[1], size_out[2]) <= 1200
            /\ Max(size_in[1], size_in[2]) <= 1200 => size_out = size_in

C7_Witness ==
    /\ pc = "record"
    /\ doc[1][1].size = <<2191, 1000>>
    /\ files[FilePath(filename)].size = <<1199, 547>>

\* C8 as stated: each target dimension is the input dimension times
\* 1200 / max(w, h), rounded to the nearest integer (at most half a pixel
\* from the exact product).
C8_RoundedToNearest ==
    (pc = "save" /\ Max(original_size[1], original_size[2]) > 1200) =>
        \A i \in 1..2 :
            LET longest == Max(original_size[1], original_size[2])
                exact   == 1200 * original_size[i]
                err     == img_pil.size[i] * longest - exact
            IN  2 * err <= longest /\ 0 - longest <= 2 * err

\* C8 amended: each target dimension is the input dimension times
\* 1200 / max(w, h) truncated to an integer: never above the exact product,
\* and less than one pixel below it, or exactly one pixel below it when the
\* exact product is a whole number that the float product falls short of.
C8_Truncated ==
    (pc = "save" /\ Max(original_size[1], original_size[2]) > 1200) =>
        \A i \in 1..2 :
            LET longest == Max(original_size[1], original_size[2])
                exact   == 1200 * original_size[i]
            IN  /\ img_pil.size[i] * longest <= exact
                /\ exact <= (img_pil.size[i] + 1) * longest

C8_Witness ==
    /\ pc = "save"
    /\ original_size = <<145, 1392>>
    /\ img_pil.size = <<124, 1200>>

\* C9: the handle is closed once, after the last page and before the
\* summary and the return, and only on the success path; a run that ends in
\* the document-level handler never closes it.
C9_ClosedOnceOnSuccess ==
    /\ closes <= 1
    /\ pdf_doc = "closed" <=> closes = 1
    /\ pdf_doc = "closed" =>
          /\ pc \in {"summary", "return", "done"}
          /\ page_num = Len(doc)
          /\ exc = "none"
    /\ pc \in {"summary", "return"} => pdf_doc = "closed"
    /\ (pc = "done" /\ exc = "none") => pdf_doc = "closed"
    /\ exc \in {"open", "load_page"} => closes = 0
    /\ (pc = "done" /\ exc = "load_page") => pdf_doc = "open"
    /\ pc \in {"load_page", "image_loop"} \cup ImageSteps => pdf_doc = "open"

C9_Witness ==
    /\ pc = "done"
    /\ closes = 1
    /\ Len(doc) >= 2
    /\ Len(result) >= 1

\* C10: the names of the records are pairwise distinct, and the file of
\* every record still holds what it held when it was recorded.
C10_RecordedFilesKept ==
    /\ \A i, j \in 1..Len(extracted_images) :
          i # j => extracted_images[i].name # extracted_images[j].name
    /\ \A i \in 1..Len(extracted_images) :
          /\ extracted_images[i].path \in DOMAIN files
          /\ GetSize(FileOf(extracted_images[i])) = extracted_images[i].size

C10_Witness ==
    /\ Len(extracted_images) >= 2
    /\ page_num >= 1
    /\ failures >= 1
    /\ \E f \in DOMAIN files : files[f] = Partial

====
